---- MODULE Spec2Model ----
(***************************************************************************)
(* TickTrader Web API client: the request signer and the request           *)
(* dispatcher of the Node build (src/ttwebclient.mjs, axios) and of the    *)
(* browser build (src/unnamed/part_000, jQuery), and the push-notification *)
(* client over a WebSocket (src/unnamed/part_001).                         *)
(*                                                                         *)
(* A JavaScript string is a sequence of one-character strings, so that     *)
(* concatenation, upper-casing, percent-encoding and JSON serialisation    *)
(* are computed character by character as the code computes them.          *)
(***************************************************************************)
EXTENDS Integers, Sequences, FiniteSets

VARIABLES
    impl,             \* which build the client instance comes from
    web_api_address,  \* this.web_api_address
    web_api_id,       \* this.web_api_id
    web_api_key,      \* this.web_api_key
    web_api_secret,   \* this.web_api_secret
    now,              \* the wall clock Date.now() reads
    calls,            \* one record per invocation of a client operation
    transport,        \* the requests handed to the network, in order
    probe,            \* two signing contexts signed side by side (SpecSign)
    _callbacks,       \* push client: the pending-callback table
    _nextCallbackId,  \* push client: the number of the next callback id
    _ws,              \* push client: TTWebClient._ws, 0 for null
    sockets,          \* the WebSocket objects created so far
    requests,         \* one record per sendRequest
    dispatched        \* one record per message event handled

vars == <<impl, web_api_address, web_api_id, web_api_key, web_api_secret,
          now, calls, transport, probe,
          _callbacks, _nextCallbackId, _ws, sockets, requests, dispatched>>

pushVars == <<_callbacks, _nextCallbackId, _ws, sockets, requests, dispatched>>

clientVars == <<impl, web_api_address, web_api_id, web_api_key, web_api_secret>>

-----------------------------------------------------------------------------
(* Bounds of the model.                                                    *)

\* Invocations of client operations in one run.
MaxCalls == 2
\* First and last reading of the clock; the range crosses a digit boundary.
MinClock == 9
MaxClock == 10
\* sendRequest calls, WebSocket objects and message events in one run of
\* the push client.
MaxRequests == 2
MaxSockets == 2
MaxEvents == 2

-----------------------------------------------------------------------------
(* Characters and text.                                                    *)

\* The printable ASCII characters in code order, starting at code 32. The
\* grave accent (code 96) occurs in no text of the model and keeps its place
\* under a name.
ASCII ==
    <<" ","!","\"","#","$","%","&","'","(",")","*","+",",","-",".","/",
      "0","1","2","3","4","5","6","7","8","9",":",";","<","=",">","?",
      "@","A","B","C","D","E","F","G","H","I","J","K","L","M","N","O",
      "P","Q","R","S","T","U","V","W","X","Y","Z","[","\\","]","^","_",
      "grave","a","b","c","d","e","f","g","h","i","j","k","l","m","n","o",
      "p","q","r","s","t","u","v","w","x","y","z","{","|","}","~">>

CharCode(c) == 31 + (CHOOSE i \in 1..Len(ASCII) : ASCII[i] = c)

FromCharCode(n) == ASCII[n - 31]

HexDigits == <<"0","1","2","3","4","5","6","7","8","9","A","B","C","D","E","F">>

DecDigits == <<"0","1","2","3","4","5","6","7","8","9">>

\* Number.prototype.toString of a non-negative integer: its decimal digits.
RECURSIVE Decimal(_)
Decimal(n) ==
    IF n < 10 THEN <<DecDigits[n + 1]>>
    ELSE Decimal(n \div 10) \o <<DecDigits[(n % 10) + 1]>>

\* String.prototype.toUpperCase on ASCII text.
toUpperCaseChar(c) ==
    IF CharCode(c) >= 97 /\ CharCode(c) <= 122
    THEN FromCharCode(CharCode(c) - 32)
    ELSE c

toUpperCase(s) == [i \in 1..Len(s) |-> toUpperCaseChar(s[i])]

\* The characters encodeURIComponent leaves as they are.
IsUnreserved(c) ==
    \/ CharCode(c) >= 65 /\ CharCode(c) <= 90
    \/ CharCode(c) >= 97 /\ CharCode(c) <= 122
    \/ CharCode(c) >= 48 /\ CharCode(c) <= 57
    \/ c \in {"-", "_", ".", "!", "~", "*", "'", "(", ")"}

PercentEncode(c) ==
    <<"%", HexDigits[(CharCode(c) \div 16) + 1], HexDigits[(CharCode(c) % 16) + 1]>>

RECURSIVE encodeURIComponent(_)
encodeURIComponent(s) ==
    IF s = <<>> THEN <<>>
    ELSE (IF IsUnreserved(Head(s)) THEN <<Head(s)>> ELSE PercentEncode(Head(s)))
         \o encodeURIComponent(Tail(s))

-----------------------------------------------------------------------------
(* JavaScript values that are not plain text: request bodies and amounts.  *)

Undefined == [t |-> "undefined"]
Null == [t |-> "null"]
Number(n) == [t |-> "number", n |-> n]
Object(props) == [t |-> "object", props |-> props]
String(s) == [t |-> "string", s |-> s]

\* ToBoolean: what (v ? a : b), !v and (v || b) test.
Truthy(v) ==
    CASE v.t = "undefined" -> FALSE
      [] v.t = "null" -> FALSE
      [] v.t = "number" -> v.n # 0
      [] v.t = "string" -> v.s # <<>>
      [] OTHER -> TRUE

\* A default parameter value (amount = null, data = null) replaces
\* undefined only.
DefaultNull(v) == IF v = Undefined THEN Null ELSE v

S_GET ==
    <<"G","E","T">>
S_POST ==
    <<"P","O","S","T">>
S_PUT ==
    <<"P","U","T">>
S_DELETE ==
    <<"D","E","L","E","T","E">>
S_HMAC ==
    <<"H","M","A","C"," ">>
S_application_json ==
    <<"a","p","p","l","i","c","a","t","i","o","n","/","j","s","o","n">>
S_application_json_utf8 ==
    <<"a","p","p","l","i","c","a","t","i","o","n","/","j","s","o","n",";"," ","c","h","a","r","s","e","t","=","U","T","F","-","8">>
S_object_Object ==
    <<"[","o","b","j","e","c","t"," ","O","b","j","e","c","t","]">>
S_undefined ==
    <<"u","n","d","e","f","i","n","e","d">>
S_null ==
    <<"n","u","l","l">>
S_public_tradesession ==
    <<"/","a","p","i","/","v","2","/","p","u","b","l","i","c","/","t","r","a","d","e","s","e","s","s","i","o","n">>
S_public_currency ==
    <<"/","a","p","i","/","v","2","/","p","u","b","l","i","c","/","c","u","r","r","e","n","c","y">>
S_public_currency_ ==
    <<"/","a","p","i","/","v","2","/","p","u","b","l","i","c","/","c","u","r","r","e","n","c","y","/">>
S_public_symbol ==
    <<"/","a","p","i","/","v","2","/","p","u","b","l","i","c","/","s","y","m","b","o","l">>
S_public_symbol_ ==
    <<"/","a","p","i","/","v","2","/","p","u","b","l","i","c","/","s","y","m","b","o","l","/">>
S_public_tick ==
    <<"/","a","p","i","/","v","2","/","p","u","b","l","i","c","/","t","i","c","k">>
S_public_tick_ ==
    <<"/","a","p","i","/","v","2","/","p","u","b","l","i","c","/","t","i","c","k","/">>
S_public_level2 ==
    <<"/","a","p","i","/","v","2","/","p","u","b","l","i","c","/","l","e","v","e","l","2">>
S_public_level2_ ==
    <<"/","a","p","i","/","v","2","/","p","u","b","l","i","c","/","l","e","v","e","l","2","/">>
S_account ==
    <<"/","a","p","i","/","v","2","/","a","c","c","o","u","n","t">>
S_tradesession ==
    <<"/","a","p","i","/","v","2","/","t","r","a","d","e","s","e","s","s","i","o","n">>
S_currency ==
    <<"/","a","p","i","/","v","2","/","c","u","r","r","e","n","c","y">>
S_currency_ ==
    <<"/","a","p","i","/","v","2","/","c","u","r","r","e","n","c","y","/">>
S_symbol ==
    <<"/","a","p","i","/","v","2","/","s","y","m","b","o","l">>
S_symbol_ ==
    <<"/","a","p","i","/","v","2","/","s","y","m","b","o","l","/">>
S_tick ==
    <<"/","a","p","i","/","v","2","/","t","i","c","k">>
S_tick_ ==
    <<"/","a","p","i","/","v","2","/","t","i","c","k","/">>
S_level2 ==
    <<"/","a","p","i","/","v","2","/","l","e","v","e","l","2">>
S_level2_ ==
    <<"/","a","p","i","/","v","2","/","l","e","v","e","l","2","/">>
S_asset ==
    <<"/","a","p","i","/","v","2","/","a","s","s","e","t">>
S_asset_ ==
    <<"/","a","p","i","/","v","2","/","a","s","s","e","t","/">>
S_position ==
    <<"/","a","p","i","/","v","2","/","p","o","s","i","t","i","o","n">>
S_position_ ==
    <<"/","a","p","i","/","v","2","/","p","o","s","i","t","i","o","n","/">>
S_trade ==
    <<"/","a","p","i","/","v","2","/","t","r","a","d","e">>
S_trade_ ==
    <<"/","a","p","i","/","v","2","/","t","r","a","d","e","/">>
S_trade_Cancel ==
    <<"/","a","p","i","/","v","2","/","t","r","a","d","e","?","t","y","p","e","=","C","a","n","c","e","l","&","i","d","=">>
S_trade_Close ==
    <<"/","a","p","i","/","v","2","/","t","r","a","d","e","?","t","y","p","e","=","C","l","o","s","e","&","i","d","=">>
S_amount ==
    <<"&","a","m","o","u","n","t","=">>
S_trade_CloseBy ==
    <<"/","a","p","i","/","v","2","/","t","r","a","d","e","?","t","y","p","e","=","C","l","o","s","e","B","y","&","i","d","=">>
S_byid ==
    <<"&","b","y","i","d","=">>
S_tradehistory ==
    <<"/","a","p","i","/","v","2","/","t","r","a","d","e","h","i","s","t","o","r","y">>
S_tradehistory_ ==
    <<"/","a","p","i","/","v","2","/","t","r","a","d","e","h","i","s","t","o","r","y","/">>

-----------------------------------------------------------------------------
(* Serialisation of values.                                                *)

\* A JSON string literal: quotes around the text, the quote and the backslash escaped.
RECURSIVE JSONquoteChars(_)
JSONquoteChars(s) ==
    IF s = <<>> THEN <<>>
    ELSE (IF Head(s) \in {"\"", "\\"} THEN <<"\\", Head(s)>> ELSE <<Head(s)>>)
         \o JSONquoteChars(Tail(s))

JSONquote(s) == <<"\"">> \o JSONquoteChars(s) \o <<"\"">>

\* JSON.stringify of a number or of a flat object with numeric properties.
RECURSIVE JSONmembers(_)
JSONmembers(props) ==
    IF props = <<>> THEN <<>>
    ELSE JSONquote(Head(props).k) \o <<":">> \o Decimal(Head(props).v.n)
         \o (IF Tail(props) = <<>> THEN <<>> ELSE <<",">> \o JSONmembers(Tail(props)))

JSONstringify(v) ==
    CASE v.t = "object" -> <<"{">> \o JSONmembers(v.props) \o <<"}">>
      [] v.t = "number" -> Decimal(v.n)
      [] v.t = "null" -> S_null

\* ToString: what + and a template literal make of a value joined to text.
ToString(v) ==
    CASE v.t = "object" -> S_object_Object
      [] v.t = "number" -> Decimal(v.n)
      [] v.t = "null" -> S_null
      [] v.t = "undefined" -> S_undefined

-----------------------------------------------------------------------------
(* Requests, headers and digests.                                          *)

\* The digest of a message under a key, kept symbolic: two digests are
\* equal exactly when key and message are.
HmacSHA256(message, secret) ==
    [alg |-> "HMAC-SHA256", key |-> secret, message |-> message]

Base64(digest) == [enc |-> "base64", digest |-> digest]

NoSignature == [enc |-> "none", digest |-> <<>>]

\* A header that is not set.
NoAuthorization == [set |-> FALSE, text |-> <<>>, signature |-> NoSignature]

NoHeaders == [ContentType |-> <<>>, Authorization |-> NoAuthorization]

\* Mutant of AuthorizationValue: the header is given a second reading of
\* the clock, a millisecond after the one that was signed.
AuthorizationValue_clockReadAgain(id, key, timestamp, hash) ==
    [set |-> TRUE,
     text |-> S_HMAC \o id \o <<":">> \o key \o <<":">> \o Decimal(timestamp + 1) \o <<":">>,
     signature |-> hash]

\* The Authorization value: the text up to the last colon, then the Base64
\* text of the digest.
AuthorizationValue(id, key, timestamp, hash) ==
    [set |-> TRUE,
     text |-> S_HMAC \o id \o <<":">> \o key \o <<":">> \o Decimal(timestamp) \o <<":">>,
     signature |-> hash]

NoBody == [present |-> FALSE, text |-> <<>>]

Body(text) == [present |-> TRUE, text |-> text]

NoReply == [kind |-> "none", status |-> 0]

\* What the network can answer: a 2xx response, a non-2xx response, or a
\* connection failure.
Replies ==
    {[kind |-> "response", status |-> 200],
     [kind |-> "response", status |-> 404],
     [kind |-> "error", status |-> 0]}

\* What an operation gave the signer: the method, URL and data to sign and
\* the headers set so far. None for a public operation.
NoContext == [method |-> <<>>, url |-> <<>>, data |-> Undefined, headers |-> NoHeaders]

\* The synchronous part of an operation threw error out of the signer,
\* which had been given context: nothing is sent.
Threw(error, context) ==
    [threw |-> TRUE, error |-> error, signed |-> 1, context |-> context,
     timestamp |-> 0, signature |-> <<>>, sent |-> <<>>]

-----------------------------------------------------------------------------
(* The Node build: src/ttwebclient.mjs.                                    *)

\* Mutant of signature: the body is left out of the signing string.
signature_bodyLeftOut(config, id, key, timestamp) ==
    Decimal(timestamp) \o id \o key \o toUpperCase(config.method) \o config.url

\* Mutant of signature: the body counts as absent only when it is undefined,
\* so that null is serialised.
signature_undefinedOnly(config, id, key, timestamp) ==
    Decimal(timestamp) \o id \o key \o toUpperCase(config.method) \o config.url
    \o (IF config.data # Undefined THEN JSONstringify(config.data) ELSE <<>>)

\* const signature = timestamp + id + key + METHOD + url + body
signature(config, id, key, timestamp) ==
    Decimal(timestamp) \o id \o key \o toUpperCase(config.method) \o config.url
    \o (IF Truthy(config.data) THEN JSONstringify(config.data) ELSE <<>>)

\* createHmac('sha256', secret).update(signature).digest('base64')
hash(message, secret) == Base64(HmacSHA256(message, secret))

\* config.headers = {...config.headers, 'Authorization': ...}
headers(config, id, key, timestamp, digest) ==
    [config.headers EXCEPT !.Authorization = AuthorizationValue(id, key, timestamp, digest)]

\* Mutant of _signRequest: the secret is not checked.
_signRequest_secretUnchecked(config, id, key, secret, timestamp) ==
    IF id = <<>> THEN
        [threw |-> TRUE, error |-> "TickTrader Web API Id should be valid!",
         timestamp |-> 0, signature |-> <<>>, config |-> config]
    ELSE IF key = <<>> THEN
        [threw |-> TRUE, error |-> "TickTrader Web API Key should be valid!",
         timestamp |-> 0, signature |-> <<>>, config |-> config]
    ELSE
        [threw |-> FALSE, error |-> "",
         timestamp |-> timestamp,
         signature |-> signature(config, id, key, timestamp),
         config |-> [config EXCEPT !.headers =
                        headers(config, id, key, timestamp,
                                hash(signature(config, id, key, timestamp), secret))]]

\* _signRequest with Date.now() = timestamp: the error thrown, or the signed
\* config with the signing string it was signed over.
_signRequest(config, id, key, secret, timestamp) ==
    IF id = <<>> THEN
        [threw |-> TRUE, error |-> "TickTrader Web API Id should be valid!",
         timestamp |-> 0, signature |-> <<>>, config |-> config]
    ELSE IF key = <<>> THEN
        [threw |-> TRUE, error |-> "TickTrader Web API Key should be valid!",
         timestamp |-> 0, signature |-> <<>>, config |-> config]
    ELSE IF secret = <<>> THEN
        [threw |-> TRUE, error |-> "TickTrader Web API Secret should be valid!",
         timestamp |-> 0, signature |-> <<>>, config |-> config]
    ELSE
        [threw |-> FALSE, error |-> "",
         timestamp |-> timestamp,
         signature |-> signature(config, id, key, timestamp),
         config |-> [config EXCEPT !.headers =
                        headers(config, id, key, timestamp,
                                hash(signature(config, id, key, timestamp), secret))]]

\* axios(config): the request axios puts on the wire. The method goes out in
\* upper case, an object body as its JSON text, and no body when config.data
\* is undefined or null.
axios(config) ==
    [method |-> toUpperCase(config.method),
     url |-> config.url,
     body |-> IF Truthy(config.data) THEN Body(JSONstringify(config.data)) ELSE NoBody,
     headers |-> config.headers]

\* axios.get(url)
axios_get(url) ==
    [threw |-> FALSE, error |-> "", signed |-> 0, context |-> NoContext,
     timestamp |-> 0, signature |-> <<>>,
     sent |-> <<axios([method |-> <<"g","e","t">>, url |-> url, data |-> Undefined,
                       headers |-> NoHeaders])>>]

\* axios(_signRequest(config, this.web_api_id, this.web_api_key, this.web_api_secret))
axios_signRequest(config) ==
    LET s == _signRequest(config, web_api_id, web_api_key, web_api_secret, now)
        context == [method |-> config.method, url |-> config.url, data |-> config.data,
                    headers |-> config.headers]
    IN  IF s.threw THEN Threw(s.error, context)
        ELSE [threw |-> FALSE, error |-> "", signed |-> 1, context |-> context,
              timestamp |-> s.timestamp, signature |-> s.signature,
              sent |-> <<axios(s.config)>>]

-----------------------------------------------------------------------------
(* The browser build: src/unnamed/part_000.                                *)

\* const signature = timestamp + id + key + context.type + context.url + (context.data || "")
B_signature(context, id, key, timestamp) ==
    Decimal(timestamp) \o id \o key \o context.type \o context.url
    \o (IF Truthy(context.data) THEN ToString(context.data) ELSE <<>>)

\* CryptoJS.enc.Base64.stringify(CryptoJS.HmacSHA256(signature, secret))
B_hash(message, secret) == Base64(HmacSHA256(message, secret))

\* request.setRequestHeader('Authorization', authHeader)
setRequestHeader(request, id, key, timestamp, digest) ==
    [request EXCEPT !.headers.Authorization = AuthorizationValue(id, key, timestamp, digest)]

\* signRequest with Date.now() = timestamp: the error thrown, or the request
\* with its Authorization header and the signing string it was signed over.
signRequest(context, request, id, key, secret, timestamp) ==
    IF id = <<>> \/ key = <<>> \/ secret = <<>> THEN
        [threw |-> TRUE, error |-> "Missing TickTrader Web API credentials.",
         timestamp |-> 0, signature |-> <<>>, request |-> request]
    ELSE
        [threw |-> FALSE, error |-> "",
         timestamp |-> timestamp,
         signature |-> B_signature(context, id, key, timestamp),
         request |-> setRequestHeader(request, id, key, timestamp,
                        B_hash(B_signature(context, id, key, timestamp), secret))]

NoBeforeSend == [set |-> FALSE, context |-> [type |-> <<>>, url |-> <<>>, data |-> Undefined]]

\* $.ajax(settings): jQuery prepares the request (method in upper case,
\* Content-Type when there is data), runs beforeSend on it, whose exception
\* leaves $.ajax before the request is sent, and then sends it.
ajax(settings) ==
    LET jqXHR == [method |-> toUpperCase(settings.type),
                  url |-> settings.url,
                  body |-> settings.data,
                  headers |-> [NoHeaders EXCEPT !.ContentType =
                                  IF settings.data.present THEN settings.contentType
                                  ELSE <<>>]]
        b == signRequest(settings.beforeSend.context, jqXHR,
                         web_api_id, web_api_key, web_api_secret, now)
        context == [method |-> settings.beforeSend.context.type,
                    url |-> settings.beforeSend.context.url,
                    data |-> settings.beforeSend.context.data,
                    headers |-> jqXHR.headers]
    IN  IF ~settings.beforeSend.set THEN
            [threw |-> FALSE, error |-> "", signed |-> 0, context |-> NoContext,
             timestamp |-> 0, signature |-> <<>>, sent |-> <<jqXHR>>]
        ELSE IF b.threw THEN Threw(b.error, context)
        ELSE [threw |-> FALSE, error |-> "", signed |-> 1, context |-> context,
              timestamp |-> b.timestamp, signature |-> b.signature,
              sent |-> <<b.request>>]

\* _authAjax(url, type = 'GET', data = null)
_authAjax(url, type, data) ==
    ajax([url |-> url,
          type |-> type,
          data |-> IF Truthy(DefaultNull(data))
                   THEN Body(JSONstringify(DefaultNull(data))) ELSE NoBody,
          contentType |-> IF Truthy(DefaultNull(data))
                          THEN S_application_json_utf8 ELSE <<>>,
          beforeSend |-> [set |-> TRUE,
                          context |-> [type |-> type, url |-> url,
                                       data |-> DefaultNull(data)]]])

\* _publicAjax(path)
_publicAjax(path) ==
    ajax([url |-> web_api_address \o path,
          type |-> S_GET,
          data |-> NoBody,
          contentType |-> <<>>,
          beforeSend |-> NoBeforeSend])

-----------------------------------------------------------------------------
(* The client, its callers and the network.                                *)

\* The base address and the credentials a client is constructed with. A
\* credential left out at construction is undefined, which !x treats as
\* it treats the empty string: both are the empty text here.
Addresses == {<<"h","t","t","p",":","/","/","x">>}
Ids == {<<>>, <<"A">>}
Keys == {<<>>, <<"B">>}
Secrets == {<<>>, <<"C">>}

\* Symbol and currency names, trade identifiers, amounts and request
\* bodies the callers pass.
Names == {<<"U","S","D">>, <<"E","U","R","/","U","S","D">>}
TradeIds == {<<"T","1","2","3">>, <<"1","/","2">>}
Amounts == {Undefined, Number(0), Number(5)}
Requests ==
    {Undefined, Null, Object(<<>>), Object(<<[k |-> <<"I","d">>, v |-> Number(7)]>>)}

\* The promise an operation returns is the transport's own: no handler is
\* attached, so the caller sees the reply as the transport settles it.
Returned(call, reply) ==
    [call EXCEPT !.state = IF reply.kind = "response" /\ reply.status = 200
                           THEN "fulfilled" ELSE "rejected",
                 !.result = reply]

\* Mutant of Settled: a request that failed is sent again.
Settled_sentAgain(log, j, reply) ==
    IF reply.kind = "response" /\ reply.status = 200
    THEN [log EXCEPT ![j].reply = reply]
    ELSE Append([log EXCEPT ![j].reply = reply], [log[j] EXCEPT !.reply = NoReply])

\* What a settled request leaves on the transport: its reply, and nothing
\* sent again.
Settled(log, j, reply) == [log EXCEPT ![j].reply = reply]

\* The transport entries of invocation i.
Sent(i) == {j \in 1..Len(transport) : transport[j].call = i}

CredentialsComplete ==
    web_api_id # <<>> /\ web_api_key # <<>> /\ web_api_secret # <<>>

\* Mutant of Invoke: the requests share one headers object, so the headers
\* of the request just prepared replace those of every request in flight.
Invoke_headersShared(op, args, private, r) ==
    /\ Len(calls) < MaxCalls
    /\ calls' = Append(calls,
            [op |-> op, args |-> args, private |-> private,
             threw |-> r.threw, error |-> r.error, signed |-> r.signed,
             context |-> r.context, timestamp |-> r.timestamp,
             signature |-> r.signature,
             state |-> IF r.threw THEN "threw" ELSE "pending",
             result |-> NoReply])
    /\ transport' =
            [j \in 1..Len(transport) |->
                IF transport[j].reply = NoReply /\ r.sent # <<>>
                THEN [transport[j] EXCEPT !.request.headers = r.sent[1].headers]
                ELSE transport[j]]
            \o [i \in 1..Len(r.sent) |->
                [call |-> Len(calls) + 1, request |-> r.sent[i], reply |-> NoReply]]
    /\ UNCHANGED <<clientVars, now, probe, pushVars>>

\* One invocation of an operation: r is what its synchronous part did.
Invoke(op, args, private, r) ==
    /\ Len(calls) < MaxCalls
    /\ calls' = Append(calls,
            [op |-> op, args |-> args, private |-> private,
             threw |-> r.threw, error |-> r.error, signed |-> r.signed,
             context |-> r.context, timestamp |-> r.timestamp,
             signature |-> r.signature,
             state |-> IF r.threw THEN "threw" ELSE "pending",
             result |-> NoReply])
    /\ transport' = transport \o
            [i \in 1..Len(r.sent) |->
                [call |-> Len(calls) + 1, request |-> r.sent[i], reply |-> NoReply]]
    /\ UNCHANGED <<clientVars, now, probe, pushVars>>

NodeInvoke(op, args, private, r) == impl = "node" /\ Invoke(op, args, private, r)

BrowserInvoke(op, args, private, r) == impl = "browser" /\ Invoke(op, args, private, r)

\* The push client when its module has been loaded: an empty callback
\* table, the counter at 1, no socket.
ModuleLoaded ==
    /\ _callbacks = [k \in {} |-> Undefined]
    /\ _nextCallbackId = 1
    /\ _ws = 0
    /\ sockets = <<>>
    /\ requests = <<>>
    /\ dispatched = <<>>

\* new TickTraderWebClient(address, id, key, secret): the address is
\* required, the credentials are stored as given.
Init ==
    /\ impl \in {"node", "browser"}
    /\ web_api_address \in Addresses
    /\ web_api_id \in Ids
    /\ web_api_key \in Keys
    /\ web_api_secret \in Secrets
    /\ now = MinClock
    /\ calls = <<>>
    /\ transport = <<>>
    /\ probe = <<>>
    /\ ModuleLoaded

\* Time passes.
Tick ==
    /\ now < MaxClock
    /\ now' = now + 1
    /\ UNCHANGED <<clientVars, calls, transport, probe, pushVars>>

\* The network answers a request that is in flight.
Settle ==
    \E j \in 1..Len(transport), reply \in Replies :
        /\ transport[j].reply = NoReply
        /\ transport' = Settled(transport, j, reply)
        /\ calls' = [calls EXCEPT ![transport[j].call] = Returned(@, reply)]
        /\ UNCHANGED <<clientVars, now, probe, pushVars>>

-----------------------------------------------------------------------------
(* The operations of the Node build.                                       *)

getPublicTradeSession ==
    NodeInvoke("getPublicTradeSession", <<>>, FALSE,
        axios_get(web_api_address \o S_public_tradesession))

getPublicAllCurrencies ==
    NodeInvoke("getPublicAllCurrencies", <<>>, FALSE,
        axios_get(web_api_address \o S_public_currency))

getPublicCurrency ==
    \E currency \in Names :
        NodeInvoke("getPublicCurrency", <<currency>>, FALSE,
            axios_get(web_api_address \o S_public_currency_ \o encodeURIComponent(currency)))

getPublicAllSymbols ==
    NodeInvoke("getPublicAllSymbols", <<>>, FALSE,
        axios_get(web_api_address \o S_public_symbol))

\* Mutant of getPublicSymbol: the public request goes through the signer.
getPublicSymbol_signed ==
    \E symbol \in Names :
        NodeInvoke("getPublicSymbol", <<symbol>>, FALSE,
            axios_signRequest(
            [method |-> S_GET,
             url |-> web_api_address \o S_public_symbol_ \o encodeURIComponent(symbol),
             data |-> Undefined,
             headers |-> NoHeaders]))

getPublicSymbol ==
    \E symbol \in Names :
        NodeInvoke("getPublicSymbol", <<symbol>>, FALSE,
            axios_get(web_api_address \o S_public_symbol_ \o encodeURIComponent(symbol)))

getPublicAllTicks ==
    NodeInvoke("getPublicAllTicks", <<>>, FALSE,
        axios_get(web_api_address \o S_public_tick))

getPublicTick ==
    \E symbol \in Names :
        NodeInvoke("getPublicTick", <<symbol>>, FALSE,
            axios_get(web_api_address \o S_public_tick_ \o encodeURIComponent(symbol)))

getPublicAllTicksLevel2 ==
    NodeInvoke("getPublicAllTicksLevel2", <<>>, FALSE,
        axios_get(web_api_address \o S_public_level2))

getPublicTickLevel2 ==
    \E symbol \in Names :
        NodeInvoke("getPublicTickLevel2", <<symbol>>, FALSE,
            axios_get(web_api_address \o S_public_level2_ \o encodeURIComponent(symbol)))

getAccount ==
    NodeInvoke("getAccount", <<>>, TRUE,
        axios_signRequest(
            [method |-> S_GET,
             url |-> web_api_address \o S_account,
             data |-> Undefined,
             headers |-> NoHeaders]))

getTradeSession ==
    NodeInvoke("getTradeSession", <<>>, TRUE,
        axios_signRequest(
            [method |-> S_GET,
             url |-> web_api_address \o S_tradesession,
             data |-> Undefined,
             headers |-> NoHeaders]))

getAllCurrencies ==
    NodeInvoke("getAllCurrencies", <<>>, TRUE,
        axios_signRequest(
            [method |-> S_GET,
             url |-> web_api_address \o S_currency,
             data |-> Undefined,
             headers |-> NoHeaders]))

getCurrency ==
    \E currency \in Names :
        NodeInvoke("getCurrency", <<currency>>, TRUE,
            axios_signRequest(
            [method |-> S_GET,
             url |-> web_api_address \o S_currency_ \o encodeURIComponent(currency),
             data |-> Undefined,
             headers |-> NoHeaders]))

getAllSymbols ==
    NodeInvoke("getAllSymbols", <<>>, TRUE,
        axios_signRequest(
            [method |-> S_GET,
             url |-> web_api_address \o S_symbol,
             data |-> Undefined,
             headers |-> NoHeaders]))

getSymbol ==
    \E symbol \in Names :
        NodeInvoke("getSymbol", <<symbol>>, TRUE,
            axios_signRequest(
            [method |-> S_GET,
             url |-> web_api_address \o S_symbol_ \o encodeURIComponent(symbol),
             data |-> Undefined,
             headers |-> NoHeaders]))

getAllTicks ==
    NodeInvoke("getAllTicks", <<>>, TRUE,
        axios_signRequest(
            [method |-> S_GET,
             url |-> web_api_address \o S_tick,
             data |-> Undefined,
             headers |-> NoHeaders]))

getTick ==
    \E symbol \in Names :
        NodeInvoke("getTick", <<symbol>>, TRUE,
            axios_signRequest(
            [method |-> S_GET,
             url |-> web_api_address \o S_tick_ \o encodeURIComponent(symbol),
             data |-> Undefined,
             headers |-> NoHeaders]))

getAllTicksLevel2 ==
    NodeInvoke("getAllTicksLevel2", <<>>, TRUE,
        axios_signRequest(
            [method |-> S_GET,
             url |-> web_api_address \o S_level2,
             data |-> Undefined,
             headers |-> NoHeaders]))

getTickLevel2 ==
    \E symbol \in Names :
        NodeInvoke("getTickLevel2", <<symbol>>, TRUE,
            axios_signRequest(
            [method |-> S_GET,
             url |-> web_api_address \o S_level2_ \o encodeURIComponent(symbol),
             data |-> Undefined,
             headers |-> NoHeaders]))

getAllAssets ==
    NodeInvoke("getAllAssets", <<>>, TRUE,
        axios_signRequest(
            [method |-> S_GET,
             url |-> web_api_address \o S_asset,
             data |-> Undefined,
             headers |-> NoHeaders]))

getAsset ==
    \E currency \in Names :
        NodeInvoke("getAsset", <<currency>>, TRUE,
            axios_signRequest(
            [method |-> S_GET,
             url |-> web_api_address \o S_asset_ \o encodeURIComponent(currency),
             data |-> Undefined,
             headers |-> NoHeaders]))

getAllPositions ==
    NodeInvoke("getAllPositions", <<>>, TRUE,
        axios_signRequest(
            [method |-> S_GET,
             url |-> web_api_address \o S_position,
             data |-> Undefined,
             headers |-> NoHeaders]))

getPosition ==
    \E symbol \in Names :
        NodeInvoke("getPosition", <<symbol>>, TRUE,
            axios_signRequest(
            [method |-> S_GET,
             url |-> web_api_address \o S_position_ \o encodeURIComponent(symbol),
             data |-> Undefined,
             headers |-> NoHeaders]))

getAllTrades ==
    NodeInvoke("getAllTrades", <<>>, TRUE,
        axios_signRequest(
            [method |-> S_GET,
             url |-> web_api_address \o S_trade,
             data |-> Undefined,
             headers |-> NoHeaders]))

getTrade ==
    \E tradeId \in TradeIds :
        NodeInvoke("getTrade", <<tradeId>>, TRUE,
            axios_signRequest(
            [method |-> S_GET,
             url |-> web_api_address \o S_trade_ \o tradeId,
             data |-> Undefined,
             headers |-> NoHeaders]))

createTrade ==
    \E request \in Requests :
        NodeInvoke("createTrade", <<request>>, TRUE,
            axios_signRequest(
            [method |-> S_POST,
             url |-> web_api_address \o S_trade,
             data |-> request,
             headers |-> [NoHeaders EXCEPT !.ContentType = S_application_json]]))

modifyTrade ==
    \E request \in Requests :
        NodeInvoke("modifyTrade", <<request>>, TRUE,
            axios_signRequest(
            [method |-> S_PUT,
             url |-> web_api_address \o S_trade,
             data |-> request,
             headers |-> [NoHeaders EXCEPT !.ContentType = S_application_json]]))

cancelTrade ==
    \E tradeId \in TradeIds :
        NodeInvoke("cancelTrade", <<tradeId>>, TRUE,
            axios_signRequest(
            [method |-> S_DELETE,
             url |-> web_api_address \o S_trade_Cancel \o tradeId,
             data |-> Undefined,
             headers |-> NoHeaders]))

closeTrade ==
    \E tradeId \in TradeIds, amount \in Amounts :
        NodeInvoke("closeTrade", <<tradeId, amount>>, TRUE,
            axios_signRequest(
            [method |-> S_DELETE,
             url |-> IF Truthy(amount)
                     THEN web_api_address \o S_trade_Close \o tradeId
                          \o S_amount \o ToString(amount)
                     ELSE web_api_address \o S_trade_Close \o tradeId,
             data |-> Undefined,
             headers |-> NoHeaders]))

closeByTrade ==
    \E tradeId \in TradeIds, byTradeId \in TradeIds :
        NodeInvoke("closeByTrade", <<tradeId, byTradeId>>, TRUE,
            axios_signRequest(
            [method |-> S_DELETE,
             url |-> web_api_address \o S_trade_CloseBy \o tradeId \o S_byid \o byTradeId,
             data |-> Undefined,
             headers |-> NoHeaders]))

getTradeHistory ==
    \E request \in Requests :
        NodeInvoke("getTradeHistory", <<request>>, TRUE,
            axios_signRequest(
            [method |-> S_POST,
             url |-> web_api_address \o S_tradehistory,
             data |-> request,
             headers |-> [NoHeaders EXCEPT !.ContentType = S_application_json]]))

getTradeHistoryByTradeId ==
    \E tradeId \in TradeIds, request \in Requests :
        NodeInvoke("getTradeHistoryByTradeId", <<tradeId, request>>, TRUE,
            axios_signRequest(
            [method |-> S_POST,
             url |-> web_api_address \o S_tradehistory_ \o tradeId,
             data |-> request,
             headers |-> [NoHeaders EXCEPT !.ContentType = S_application_json]]))

-----------------------------------------------------------------------------
(* The operations of the browser build.                                    *)

B_getPublicTradeSession ==
    BrowserInvoke("getPublicTradeSession", <<>>, FALSE,
        _publicAjax(S_public_tradesession))

B_getPublicAllCurrencies ==
    BrowserInvoke("getPublicAllCurrencies", <<>>, FALSE,
        _publicAjax(S_public_currency))

B_getPublicCurrency ==
    \E currency \in Names :
        BrowserInvoke("getPublicCurrency", <<currency>>, FALSE,
            _publicAjax(S_public_currency_ \o encodeURIComponent(currency)))

B_getPublicAllSymbols ==
    BrowserInvoke("getPublicAllSymbols", <<>>, FALSE,
        _publicAjax(S_public_symbol))

B_getPublicSymbol ==
    \E symbol \in Names :
        BrowserInvoke("getPublicSymbol", <<symbol>>, FALSE,
            _publicAjax(S_public_symbol_ \o encodeURIComponent(symbol)))

B_getPublicAllTicks ==
    BrowserInvoke("getPublicAllTicks", <<>>, FALSE,
        _publicAjax(S_public_tick))

B_getPublicTick ==
    \E symbol \in Names :
        BrowserInvoke("getPublicTick", <<symbol>>, FALSE,
            _publicAjax(S_public_tick_ \o encodeURIComponent(symbol)))

B_getPublicAllTicksLevel2 ==
    BrowserInvoke("getPublicAllTicksLevel2", <<>>, FALSE,
        _publicAjax(S_public_level2))

B_getPublicTickLevel2 ==
    \E symbol \in Names :
        BrowserInvoke("getPublicTickLevel2", <<symbol>>, FALSE,
            _publicAjax(S_public_level2_ \o encodeURIComponent(symbol)))

B_getAccount ==
    BrowserInvoke("getAccount", <<>>, TRUE,
        _authAjax(web_api_address \o S_account, S_GET, Undefined))

B_getTradeSession ==
    BrowserInvoke("getTradeSession", <<>>, TRUE,
        _authAjax(web_api_address \o S_tradesession, S_GET, Undefined))

B_getAllCurrencies ==
    BrowserInvoke("getAllCurrencies", <<>>, TRUE,
        _authAjax(web_api_address \o S_currency, S_GET, Undefined))

B_getCurrency ==
    \E currency \in Names :
        BrowserInvoke("getCurrency", <<currency>>, TRUE,
            _authAjax(web_api_address \o S_currency_ \o encodeURIComponent(currency), S_GET, Undefined))

B_getAllSymbols ==
    BrowserInvoke("getAllSymbols", <<>>, TRUE,
        _authAjax(web_api_address \o S_symbol, S_GET, Undefined))

B_getSymbol ==
    \E symbol \in Names :
        BrowserInvoke("getSymbol", <<symbol>>, TRUE,
            _authAjax(web_api_address \o S_symbol_ \o encodeURIComponent(symbol), S_GET, Undefined))

B_getAllTicks ==
    BrowserInvoke("getAllTicks", <<>>, TRUE,
        _authAjax(web_api_address \o S_tick, S_GET, Undefined))

B_getTick ==
    \E symbol \in Names :
        BrowserInvoke("getTick", <<symbol>>, TRUE,
            _authAjax(web_api_address \o S_tick_ \o encodeURIComponent(symbol), S_GET, Undefined))

B_getAllTicksLevel2 ==
    BrowserInvoke("getAllTicksLevel2", <<>>, TRUE,
        _authAjax(web_api_address \o S_level2, S_GET, Undefined))

B_getTickLevel2 ==
    \E symbol \in Names :
        BrowserInvoke("getTickLevel2", <<symbol>>, TRUE,
            _authAjax(web_api_address \o S_level2_ \o encodeURIComponent(symbol), S_GET, Undefined))

B_getAllAssets ==
    BrowserInvoke("getAllAssets", <<>>, TRUE,
        _authAjax(web_api_address \o S_asset, S_GET, Undefined))

B_getAsset ==
    \E currency \in Names :
        BrowserInvoke("getAsset", <<currency>>, TRUE,
            _authAjax(web_api_address \o S_asset_ \o encodeURIComponent(currency), S_GET, Undefined))

B_getAllPositions ==
    BrowserInvoke("getAllPositions", <<>>, TRUE,
        _authAjax(web_api_address \o S_position, S_GET, Undefined))

B_getPosition ==
    \E symbol \in Names :
        BrowserInvoke("getPosition", <<symbol>>, TRUE,
            _authAjax(web_api_address \o S_position_ \o encodeURIComponent(symbol), S_GET, Undefined))

B_getAllTrades ==
    BrowserInvoke("getAllTrades", <<>>, TRUE,
        _authAjax(web_api_address \o S_trade, S_GET, Undefined))

B_getTrade ==
    \E tradeId \in TradeIds :
        BrowserInvoke("getTrade", <<tradeId>>, TRUE,
            _authAjax(web_api_address \o S_trade_ \o tradeId, S_GET, Undefined))

B_createTrade ==
    \E data \in Requests :
        BrowserInvoke("createTrade", <<data>>, TRUE,
            _authAjax(web_api_address \o S_trade, S_POST, data))

B_modifyTrade ==
    \E data \in Requests :
        BrowserInvoke("modifyTrade", <<data>>, TRUE,
            _authAjax(web_api_address \o S_trade, S_PUT, data))

B_cancelTrade ==
    \E tradeId \in TradeIds :
        BrowserInvoke("cancelTrade", <<tradeId>>, TRUE,
            _authAjax(web_api_address \o S_trade_Cancel \o tradeId, S_DELETE, Undefined))

B_closeTrade ==
    \E tradeId \in TradeIds, amount \in Amounts :
        BrowserInvoke("closeTrade", <<tradeId, amount>>, TRUE,
            _authAjax(web_api_address \o S_trade_Close \o tradeId
                      \o (IF Truthy(DefaultNull(amount))
                          THEN S_amount \o ToString(DefaultNull(amount)) ELSE <<>>),
                  S_DELETE, Undefined))

B_closeByTrade ==
    \E tradeId \in TradeIds, byTradeId \in TradeIds :
        BrowserInvoke("closeByTrade", <<tradeId, byTradeId>>, TRUE,
            _authAjax(web_api_address \o S_trade_CloseBy \o tradeId \o S_byid \o byTradeId,
                  S_DELETE, Undefined))

B_getTradeHistory ==
    \E data \in Requests :
        BrowserInvoke("getTradeHistory", <<data>>, TRUE,
            _authAjax(web_api_address \o S_tradehistory, S_POST, data))

B_getTradeHistoryByTradeId ==
    \E tradeId \in TradeIds, data \in Requests :
        BrowserInvoke("getTradeHistoryByTradeId", <<tradeId, data>>, TRUE,
            _authAjax(web_api_address \o S_tradehistory_ \o tradeId, S_POST, data))

NodeNext ==
    \/ getPublicTradeSession
    \/ getPublicAllCurrencies
    \/ getPublicCurrency
    \/ getPublicAllSymbols
    \/ getPublicSymbol
    \/ getPublicAllTicks
    \/ getPublicTick
    \/ getPublicAllTicksLevel2
    \/ getPublicTickLevel2
    \/ getAccount
    \/ getTradeSession
    \/ getAllCurrencies
    \/ getCurrency
    \/ getAllSymbols
    \/ getSymbol
    \/ getAllTicks
    \/ getTick
    \/ getAllTicksLevel2
    \/ getTickLevel2
    \/ getAllAssets
    \/ getAsset
    \/ getAllPositions
    \/ getPosition
    \/ getAllTrades
    \/ getTrade
    \/ createTrade
    \/ modifyTrade
    \/ cancelTrade
    \/ closeTrade
    \/ closeByTrade
    \/ getTradeHistory
    \/ getTradeHistoryByTradeId

BrowserNext ==
    \/ B_getPublicTradeSession
    \/ B_getPublicAllCurrencies
    \/ B_getPublicCurrency
    \/ B_getPublicAllSymbols
    \/ B_getPublicSymbol
    \/ B_getPublicAllTicks
    \/ B_getPublicTick
    \/ B_getPublicAllTicksLevel2
    \/ B_getPublicTickLevel2
    \/ B_getAccount
    \/ B_getTradeSession
    \/ B_getAllCurrencies
    \/ B_getCurrency
    \/ B_getAllSymbols
    \/ B_getSymbol
    \/ B_getAllTicks
    \/ B_getTick
    \/ B_getAllTicksLevel2
    \/ B_getTickLevel2
    \/ B_getAllAssets
    \/ B_getAsset
    \/ B_getAllPositions
    \/ B_getPosition
    \/ B_getAllTrades
    \/ B_getTrade
    \/ B_createTrade
    \/ B_modifyTrade
    \/ B_cancelTrade
    \/ B_closeTrade
    \/ B_closeByTrade
    \/ B_getTradeHistory
    \/ B_getTradeHistoryByTradeId
-----------------------------------------------------------------------------
(* The signer applied to two signing contexts at one clock reading.        *)

ProbeMethods == {<<>>, S_GET, <<"g","e","t">>, S_POST}
ProbeUrls == {<<"x">>, <<"G","E","T","x">>, <<"y">>}
ProbeBodies == {Undefined, Object(<<>>), Object(<<[k |-> <<"I","d">>, v |-> Number(7)]>>)}
ProbeContexts == [method : ProbeMethods, url : ProbeUrls, data : ProbeBodies]

\* The build's signer on one context: the signing string and the digest
\* that ends up in the Authorization header.
Sign(context) ==
    IF impl = "node" THEN
        LET s == _signRequest([method |-> context.method, url |-> context.url,
                               data |-> context.data, headers |-> NoHeaders],
                              web_api_id, web_api_key, web_api_secret, now)
        IN  [context |-> context, timestamp |-> s.timestamp, signature |-> s.signature,
             hash |-> s.config.headers.Authorization.signature]
    ELSE
        LET s == signRequest([type |-> context.method, url |-> context.url,
                              data |-> context.data],
                             [method |-> context.method, url |-> context.url,
                              body |-> NoBody, headers |-> NoHeaders],
                             web_api_id, web_api_key, web_api_secret, now)
        IN  [context |-> context, timestamp |-> s.timestamp, signature |-> s.signature,
             hash |-> s.request.headers.Authorization.signature]

\* Two contexts are signed at the same clock reading, once in a run.
SignPair ==
    /\ probe = <<>>
    /\ CredentialsComplete
    /\ \E a \in ProbeContexts, b \in ProbeContexts :
           probe' = <<Sign(a), Sign(b)>>
    /\ UNCHANGED <<clientVars, now, calls, transport, pushVars>>

SignNext ==
    \/ SignPair
    \/ Tick

SpecSign == Init /\ [][SignNext]_vars

-----------------------------------------------------------------------------
(* Vocabulary of the properties.                                           *)

PublicOps ==
    {"getPublicTradeSession", "getPublicAllCurrencies", "getPublicCurrency",
     "getPublicAllSymbols", "getPublicSymbol", "getPublicAllTicks", "getPublicTick",
     "getPublicAllTicksLevel2", "getPublicTickLevel2"}

PrivateOps ==
    {"getAccount", "getTradeSession", "getAllCurrencies", "getCurrency",
     "getAllSymbols", "getSymbol", "getAllTicks", "getTick", "getAllTicksLevel2",
     "getTickLevel2", "getAllAssets", "getAsset", "getAllPositions", "getPosition",
     "getAllTrades", "getTrade", "createTrade", "modifyTrade", "cancelTrade",
     "closeTrade", "closeByTrade", "getTradeHistory", "getTradeHistoryByTradeId"}

CredentialErrors ==
    {"TickTrader Web API Id should be valid!",
     "TickTrader Web API Key should be valid!",
     "TickTrader Web API Secret should be valid!",
     "Missing TickTrader Web API credentials."}

\* A body that is absent: undefined or null.
Absent(v) == v \in {Undefined, Null}

\* s starts with p.
StartsWith(s, p) == Len(p) <= Len(s) /\ SubSeq(s, 1, Len(p)) = p

\* What is left of s after its first n characters.
Drop(s, n) == SubSeq(s, n + 1, Len(s))

\* The invocations whose request was signed and handed to the transport.
SignedCalls == {i \in 1..Len(calls) : calls[i].op \in PrivateOps /\ ~calls[i].threw}

\* The Authorization header of the only request of a signed invocation.
AuthorizationOf(i) ==
    transport[CHOOSE j \in Sent(i) : TRUE].request.headers.Authorization

-----------------------------------------------------------------------------
(* C1: a private operation on a client with an empty id, key or secret     *)
(* fails with a credential error and hands nothing to the transport; no    *)
(* request of a private operation goes out without a complete signature.   *)
C1_CredentialErrorBeforeTransport ==
    /\ \A i \in 1..Len(calls) :
          (calls[i].op \in PrivateOps /\ ~CredentialsComplete) =>
              /\ calls[i].threw
              /\ calls[i].state = "threw"
              /\ calls[i].error \in CredentialErrors
              /\ Sent(i) = {}
    /\ \A j \in 1..Len(transport) :
          calls[transport[j].call].op \in PrivateOps =>
              /\ CredentialsComplete
              /\ transport[j].request.headers.Authorization.set
              /\ transport[j].request.headers.Authorization.signature # NoSignature

\* A private operation has been invoked on a client whose secret alone is empty.
C1_Witness ==
    \E i \in 1..Len(calls) :
        /\ calls[i].op \in PrivateOps
        /\ web_api_id # <<>> /\ web_api_key # <<>> /\ web_api_secret = <<>>
        /\ calls[i].threw

(* C2: the signing string of every signed request is the decimal           *)
(* timestamp, the id, the key, the method in upper case, the full URL and  *)
(* the JSON text of the body (nothing for an absent body), in this order   *)
(* and with no separators.                                                 *)
C2_CanonicalSigningString ==
    \A i \in SignedCalls :
        calls[i].signature =
            Decimal(calls[i].timestamp) \o web_api_id \o web_api_key
            \o toUpperCase(calls[i].context.method) \o calls[i].context.url
            \o (IF Absent(calls[i].context.data) THEN <<>>
                ELSE JSONstringify(calls[i].context.data))

(* C3: the Authorization header of every signed request is "HMAC " and     *)
(* id:key:timestamp:signature, the timestamp being the clock reading the   *)
(* signing string starts with and the signature the Base64 text of the     *)
(* HMAC-SHA256 of that signing string under the secret; the headers set    *)
(* before signing are kept.                                                *)
C3_AuthorizationHeader ==
    \A j \in 1..Len(transport) :
        LET c == calls[transport[j].call]
            h == transport[j].request.headers
        IN  c.op \in PrivateOps =>
                /\ h.Authorization.set
                /\ h.Authorization.text =
                       <<"H","M","A","C"," ">> \o web_api_id \o <<":">> \o web_api_key
                       \o <<":">> \o Decimal(c.timestamp) \o <<":">>
                /\ h.Authorization.signature =
                       [enc |-> "base64",
                        digest |-> [alg |-> "HMAC-SHA256", key |-> web_api_secret,
                                    message |-> c.signature]]
                /\ StartsWith(c.signature, Decimal(c.timestamp))
                /\ c.timestamp \in MinClock..now
                /\ h.ContentType = c.context.headers.ContentType

\* A request with a body and a Content-Type header has been signed after the
\* clock moved.
C3_Witness ==
    \E j \in 1..Len(transport) :
        /\ calls[transport[j].call].op = "createTrade"
        /\ calls[transport[j].call].timestamp > MinClock
        /\ transport[j].request.body.present
        /\ transport[j].request.headers.ContentType # <<>>
        /\ transport[j].request.headers.Authorization.set

(* C4: the method, the URL and the body text that enter the signing string *)
(* of a signed request are the method, URL and body text the transport     *)
(* sends.                                                                  *)
C4_SignedIsSent ==
    \A j \in 1..Len(transport) :
        LET c == calls[transport[j].call]
            r == transport[j].request
        IN  c.op \in PrivateOps =>
                c.signature =
                    Decimal(c.timestamp) \o web_api_id \o web_api_key
                    \o r.method \o r.url \o r.body.text

\* The components of a signing context as the build's signer joins them.
MethodComponent(context) ==
    IF impl = "node" THEN toUpperCase(context.method) ELSE context.method

BodyComponent(context) ==
    IF Absent(context.data) THEN <<>>
    ELSE IF impl = "node" THEN JSONstringify(context.data)
    ELSE <<"[","o","b","j","e","c","t"," ","O","b","j","e","c","t","]">>

\* In how many of method, URL and body two contexts differ.
Differences(a, b) ==
    (IF MethodComponent(a) # MethodComponent(b) THEN 1 ELSE 0)
    + (IF a.url # b.url THEN 1 ELSE 0)
    + (IF BodyComponent(a) # BodyComponent(b) THEN 1 ELSE 0)

\* Method "" with URL "GETx" against method "GET" with URL "x", same body.
AdversarialPair(a, b) ==
    /\ a.method = <<>> /\ a.url = <<"G","E","T","x">>
    /\ b.method = <<"G","E","T">> /\ b.url = <<"x">>
    /\ a.data = b.data

(* C5, as claimed: at one timestamp and under one credential triple, two   *)
(* signing contexts that differ in method, URL or body have different      *)
(* signing strings and signatures; method "" with URL "GETx" does not sign *)
(* as method "GET" with URL "x" does. To differ is read in the signer's    *)
(* own terms, the reading most favourable to the claim: methods that       *)
(* differ only in case (Node build) and bodies joined as the same text do  *)
(* not count as different.                                                 *)
C5_DistinctContextsSignDifferently ==
    probe # <<>> =>
        /\ Differences(probe[1].context, probe[2].context) >= 1 =>
               /\ probe[1].signature # probe[2].signature
               /\ probe[1].hash # probe[2].hash
        /\ AdversarialPair(probe[1].context, probe[2].context) =>
               /\ probe[1].signature # probe[2].signature
               /\ probe[1].hash # probe[2].hash

(* C5, amended: two signing contexts that differ in exactly one of the     *)
(* method token, the URL and the body text the signer joins have different *)
(* signing strings and signatures; signatures are equal exactly when the   *)
(* signing strings are; the boundaries between the fields are not marked,  *)
(* and method "" with URL "GETx" signs as method "GET" with URL "x" does.  *)
C5_OneComponentChanged ==
    probe # <<>> =>
        /\ Differences(probe[1].context, probe[2].context) = 1 =>
               /\ probe[1].signature # probe[2].signature
               /\ probe[1].hash # probe[2].hash
        /\ probe[1].signature = probe[2].signature <=> probe[1].hash = probe[2].hash
        /\ AdversarialPair(probe[1].context, probe[2].context) =>
               /\ probe[1].signature = probe[2].signature
               /\ probe[1].hash = probe[2].hash

\* The adversarial pair has been signed.
C5_Witness ==
    /\ probe # <<>>
    /\ AdversarialPair(probe[1].context, probe[2].context)
    /\ probe[1].timestamp = probe[2].timestamp

\* The body part of the signing string of invocation i: what follows the
\* timestamp, the id, the key, the method token and the URL.
BodyPart(i) ==
    Drop(calls[i].signature,
         Len(Decimal(calls[i].timestamp)) + Len(web_api_id) + Len(web_api_key)
         + Len(calls[i].context.method) + Len(calls[i].context.url))

\* Invocations i and k signed the same request at the same clock reading,
\* but for the body.
SameButBody(i, k) ==
    /\ calls[i].context.method = calls[k].context.method
    /\ calls[i].context.url = calls[k].context.url
    /\ calls[i].timestamp = calls[k].timestamp

(* C6: the body part of the signing string is empty exactly when the body  *)
(* is absent (undefined or null), so an absent body never contributes      *)
(* "null" or "{}" and every body that is present, the empty object         *)
(* included, contributes a text that is not empty; a request with an       *)
(* absent body signs differently from the same request with body {}.       *)
(* A body that is present is a request object, as the operations document  *)
(* it.                                                                     *)
C6_EmptyBodyPartIffAbsent ==
    \A i \in SignedCalls :
        /\ BodyPart(i) = <<>> <=> Absent(calls[i].context.data)
        /\ \A k \in SignedCalls :
              (SameButBody(i, k) /\ Absent(calls[i].context.data)
               /\ calls[k].context.data = Object(<<>>)) =>
                  /\ calls[i].signature # calls[k].signature
                  /\ AuthorizationOf(i).signature # AuthorizationOf(k).signature

\* The same request has been signed at one clock reading with a null body
\* and with the body {}.
C6_Witness ==
    \E i \in SignedCalls, k \in SignedCalls :
        /\ SameButBody(i, k)
        /\ calls[i].context.data = Null
        /\ calls[k].context.data = Object(<<>>)

(* C7: every request of a private operation carries the Authorization      *)
(* header the signer made for it, and every request of a public operation  *)
(* goes to an /api/v2/public/ address with no Authorization header and     *)
(* without the signer having run, whatever the credentials of the client.  *)
C7_PrivateSignedPublicUnsigned ==
    /\ \A i \in 1..Len(calls) :
          /\ calls[i].op \in PublicOps \cup PrivateOps
          /\ calls[i].private <=> calls[i].op \in PrivateOps
          /\ calls[i].op \in PrivateOps => calls[i].signed = 1
          /\ calls[i].op \in PublicOps =>
                /\ calls[i].signed = 0
                /\ ~calls[i].threw
                /\ Cardinality(Sent(i)) = 1
    /\ \A j \in 1..Len(transport) :
          LET c == calls[transport[j].call]
              r == transport[j].request
          IN  /\ c.op \in PrivateOps =>
                    /\ r.headers.Authorization.set
                    /\ r.headers.Authorization.signature =
                           [enc |-> "base64",
                            digest |-> [alg |-> "HMAC-SHA256", key |-> web_api_secret,
                                        message |-> c.signature]]
                    /\ ~StartsWith(r.url, web_api_address
                                          \o <<"/","a","p","i","/","v","2","/","p","u","b","l","i","c","/">>)
              /\ c.op \in PublicOps =>
                    /\ r.headers.Authorization = NoAuthorization
                    /\ r.method = <<"G","E","T">>
                    /\ StartsWith(r.url, web_api_address
                                         \o <<"/","a","p","i","/","v","2","/","p","u","b","l","i","c","/">>)

\* A public operation has sent its request from a client with no
\* credentials at all.
C7_Witness ==
    \E j \in 1..Len(transport) :
        /\ calls[transport[j].call].op \in PublicOps
        /\ web_api_id = <<>> /\ web_api_key = <<>> /\ web_api_secret = <<>>

\* The operations with a path parameter, and the path before it.
PathParameterOps ==
    {"getPublicCurrency", "getPublicSymbol", "getPublicTick", "getPublicTickLevel2",
     "getCurrency", "getSymbol", "getTick", "getTickLevel2", "getAsset",
     "getPosition", "getTrade", "getTradeHistoryByTradeId"}

PathBefore(op) ==
    CASE op = "getPublicCurrency" -> S_public_currency_
      [] op = "getPublicSymbol" -> S_public_symbol_
      [] op = "getPublicTick" -> S_public_tick_
      [] op = "getPublicTickLevel2" -> S_public_level2_
      [] op = "getCurrency" -> S_currency_
      [] op = "getSymbol" -> S_symbol_
      [] op = "getTick" -> S_tick_
      [] op = "getTickLevel2" -> S_level2_
      [] op = "getAsset" -> S_asset_
      [] op = "getPosition" -> S_position_
      [] op = "getTrade" -> S_trade_
      [] op = "getTradeHistoryByTradeId" -> S_tradehistory_

(* C8: every operation with a path parameter puts the percent-encoded      *)
(* parameter in the URL path, so that no reserved character of the         *)
(* parameter stands unencoded in the path: getPublicSymbol("EUR/USD")      *)
(* requests .../public/symbol/EUR%2FUSD.                                   *)
C8_PathParameterEncoded ==
    \A j \in 1..Len(transport) :
        LET c == calls[transport[j].call]
            r == transport[j].request
            before == web_api_address \o PathBefore(c.op)
        IN  c.op \in PathParameterOps =>
                /\ StartsWith(r.url, before)
                /\ \A n \in 1..Len(Drop(r.url, Len(before))) :
                       Drop(r.url, Len(before))[n] # "/"
                /\ c.args[1] = <<"E","U","R","/","U","S","D">> =>
                       Drop(r.url, Len(before)) = <<"E","U","R","%","2","F","U","S","D">>

(* C9: closeTrade(tradeId, amount) sends DELETE to                         *)
(* {base}/api/v2/trade?type=Close&id={tradeId}, followed by                *)
(* &amount={amount} if and only if an amount is supplied.                  *)
C9_CloseTradeAmount ==
    \A j \in 1..Len(transport) :
        LET c == calls[transport[j].call]
            r == transport[j].request
            close == web_api_address
                     \o <<"/","a","p","i","/","v","2","/","t","r","a","d","e","?",
                          "t","y","p","e","=","C","l","o","s","e","&","i","d","=">>
                     \o c.args[1]
        IN  c.op = "closeTrade" =>
                /\ r.method = <<"D","E","L","E","T","E">>
                /\ c.args[2] = Undefined => r.url = close
                /\ c.args[2] # Undefined =>
                       r.url = close \o <<"&","a","m","o","u","n","t","=">>
                               \o Decimal(c.args[2].n)

(* C10: an invocation hands at most one request to the transport, exactly  *)
(* one when the operation is public or the credentials are complete; the   *)
(* request is not sent again after a failure or a non-2xx response; the    *)
(* caller gets the outcome of that one request as the transport gave it.   *)
C10_OneRequestOutcomeUnchanged ==
    \A i \in 1..Len(calls) :
        /\ Cardinality(Sent(i)) <= 1
        /\ (calls[i].op \in PublicOps \/ CredentialsComplete) => Cardinality(Sent(i)) = 1
        /\ Sent(i) = {} => calls[i].state = "threw" /\ calls[i].result = NoReply
        /\ \A j \in Sent(i) :
              /\ calls[i].result = transport[j].reply
              /\ calls[i].state = "pending" <=> transport[j].reply = NoReply
              /\ calls[i].state = "fulfilled" <=>
                     transport[j].reply = [kind |-> "response", status |-> 200]
              /\ calls[i].state = "rejected" <=>
                     transport[j].reply \in {[kind |-> "response", status |-> 404],
                                             [kind |-> "error", status |-> 0]}

\* Both invocations of a run have failed, one with a non-2xx response and
\* one with a connection failure, and each sent one request.
C10_Witness ==
    /\ Len(calls) = MaxCalls
    /\ \E i \in 1..Len(calls) :
          /\ calls[i].state = "rejected" /\ calls[i].result.status = 404
          /\ Cardinality(Sent(i)) = 1
    /\ \E i \in 1..Len(calls) :
          /\ calls[i].state = "rejected" /\ calls[i].result.kind = "error"
          /\ Cardinality(Sent(i)) = 1

\* Two requests of one run that came from the same operation with the same
\* arguments.
SameCall(j, k) ==
    /\ calls[transport[j].call].op = calls[transport[k].call].op
    /\ calls[transport[j].call].args = calls[transport[k].call].args

\* A step leaves the address and the credentials of the client as they are.
StoredKept ==
    /\ web_api_address' = web_api_address
    /\ web_api_id' = web_api_id
    /\ web_api_key' = web_api_key
    /\ web_api_secret' = web_api_secret

\* A step leaves every request already handed to the transport, and what
\* every earlier invocation signed, as they are.
InFlightKept ==
    /\ Len(transport') >= Len(transport)
    /\ \A j \in 1..Len(transport) :
           /\ transport'[j].call = transport[j].call
           /\ transport'[j].request = transport[j].request
    /\ Len(calls') >= Len(calls)
    /\ \A i \in 1..Len(calls) :
           /\ calls'[i].op = calls[i].op
           /\ calls'[i].args = calls[i].args
           /\ calls'[i].context = calls[i].context
           /\ calls'[i].timestamp = calls[i].timestamp
           /\ calls'[i].signature = calls[i].signature

\* The requests of one run are a function of the operation, its arguments
\* and its clock reading: the same operation with the same arguments gives
\* the same URL and body, and with the same clock reading the same headers;
\* signed at another clock reading it gives another Authorization header.
OwnInputsOnly ==
    \A j, k \in 1..Len(transport) :
        LET cj == calls[transport[j].call]
            ck == calls[transport[k].call]
            rj == transport[j].request
            rk == transport[k].request
        IN  SameCall(j, k) =>
                /\ rj.method = rk.method
                /\ rj.url = rk.url
                /\ rj.body = rk.body
                /\ cj.timestamp = ck.timestamp => rj.headers = rk.headers
                /\ (cj.op \in PrivateOps /\ cj.timestamp # ck.timestamp) =>
                       /\ rj.headers.Authorization # rk.headers.Authorization
                       /\ rj.headers.ContentType = rk.headers.ContentType

(* C11: under every interleaving of invocations and replies on one client, *)
(* no step changes the base address or the credentials stored at           *)
(* construction, no step changes a request that is already in flight, and  *)
(* the URL, body and Authorization header of each request are determined   *)
(* by the operation, its own arguments and its own clock reading.          *)
C11_NoSharedMutableState ==
    /\ []OwnInputsOnly
    /\ [][StoredKept /\ InFlightKept]_vars

\* Two invocations of createTrade with the same body, signed at different
\* clock readings, are in flight at once.
C11_Witness ==
    /\ Len(transport) = 2
    /\ transport[1].call # transport[2].call
    /\ SameCall(1, 2)
    /\ calls[transport[1].call].op = "createTrade"
    /\ calls[transport[1].call].timestamp # calls[transport[2].call].timestamp
    /\ transport[1].reply = NoReply
    /\ transport[2].reply = NoReply
    /\ transport[1].request.body.present

-----------------------------------------------------------------------------
(* The push-notification client: src/unnamed/part_001.                     *)

\* The functions a caller passes: a callback of sendRequest, which returns
\* or throws when it is called, and an onMessage handler of connect.
Callback(n, throws) == [t |-> "function", kind |-> "callback", of |-> n, throws |-> throws]
Handler(n) == [t |-> "function", kind |-> "onMessage", of |-> n, throws |-> FALSE]

\* A member every object inherits from Object.prototype: _callbacks is an
\* object literal, so _callbacks[key] finds it under its name.
ObjectPrototype == {<<"c","o","n","s","t","r","u","c","t","o","r">>}
Inherited(key) == [t |-> "function", kind |-> "builtin", of |-> key, throws |-> FALSE]

\* table[key]: the own property, else the inherited one, else undefined.
Get(table, key) ==
    IF key \in DOMAIN table THEN table[key]
    ELSE IF key \in ObjectPrototype THEN Inherited(key)
    ELSE Undefined

\* table[key] = value
Put(table, key, value) ==
    [k \in DOMAIN table \cup {key} |-> IF k = key THEN value ELSE table[k]]

\* delete table[key]: removes an own property, and nothing else.
Delete(table, key) == [k \in DOMAIN table \ {key} |-> table[k]]

\* 'cb' + (_nextCallbackId++): the id that is returned.
_generateCallbackId(n) == <<"c","b">> \o Decimal(n)

\* The callback argument of sendRequest for the request numbered n.
CallbackArgs(n) == {Undefined, Callback(n, FALSE), Callback(n, TRUE)}

\* The onMessage argument of connect for the socket numbered n.
HandlerArgs(n) == {Undefined, Handler(n)}

\* The callbackId of an incoming message: none, an id the client can issue,
\* an id it never issues, or the name of an inherited member.
MessageIds ==
    {Undefined}
    \cup {String(_generateCallbackId(n)) : n \in 1..(MaxRequests + 1)}
    \cup {String(key) : key \in ObjectPrototype}

\* _sendMessage(message): the socket the message goes out on, 0 when it is
\* only warned about.
_sendMessage ==
    IF _ws # 0 /\ sockets[_ws].readyState = "OPEN" THEN _ws ELSE 0

\* connect(url, onOpen, onMessage, onClose, onError): a new socket replaces
\* the one in _ws, which is left as it is.
connect ==
    /\ Len(sockets) < MaxSockets
    /\ \E onMessage \in HandlerArgs(Len(sockets) + 1) :
           sockets' = Append(sockets, [readyState |-> "CONNECTING", onMessage |-> onMessage])
    /\ _ws' = Len(sockets) + 1
    /\ UNCHANGED <<_callbacks, _nextCallbackId, requests, dispatched>>
    /\ UNCHANGED <<clientVars, now, calls, transport, probe>>

\* disconnect(): closes the socket in _ws and forgets it.
disconnect ==
    /\ IF _ws # 0
       THEN /\ sockets' = [sockets EXCEPT ![_ws].readyState =
                              IF @ \in {"CONNECTING", "OPEN"} THEN "CLOSING" ELSE @]
            /\ _ws' = 0
       ELSE UNCHANGED <<_ws, sockets>>
    /\ UNCHANGED <<_callbacks, _nextCallbackId, requests, dispatched>>
    /\ UNCHANGED <<clientVars, now, calls, transport, probe>>

\* sendRequest(method, params, callback)
sendRequest ==
    /\ _nextCallbackId <= MaxRequests
    /\ \E callback \in CallbackArgs(_nextCallbackId) :
           LET callbackId == _generateCallbackId(_nextCallbackId)
           IN  /\ _callbacks' = IF Truthy(callback)
                                THEN Put(_callbacks, callbackId, callback)
                                ELSE _callbacks
               /\ requests' = Append(requests,
                      [callbackId |-> callbackId, callback |-> callback,
                       socket |-> _sendMessage])
    /\ _nextCallbackId' = _nextCallbackId + 1
    /\ UNCHANGED <<_ws, sockets, dispatched>>
    /\ UNCHANGED <<clientVars, now, calls, transport, probe>>

\* this._ws.onmessage: a message event on an open socket, whichever socket
\* of the run it is.
onmessage ==
    /\ Len(dispatched) < MaxEvents
    /\ \E s \in 1..Len(sockets), id \in MessageIds :
           LET f == IF Truthy(id) THEN Get(_callbacks, id.s) ELSE Undefined
               onMessage == sockets[s].onMessage
           IN  /\ sockets[s].readyState = "OPEN"
               /\ IF Truthy(id) /\ Truthy(f)
                  THEN /\ dispatched' = Append(dispatched,
                              [socket |-> s, callbackId |-> id, called |-> f])
                       /\ _callbacks' = IF f.throws THEN _callbacks
                                        ELSE Delete(_callbacks, id.s)
                  ELSE /\ dispatched' = Append(dispatched,
                              [socket |-> s, callbackId |-> id, called |-> onMessage])
                       /\ UNCHANGED _callbacks
    /\ UNCHANGED <<_nextCallbackId, _ws, sockets, requests>>
    /\ UNCHANGED <<clientVars, now, calls, transport, probe>>

\* The connection of a socket is established.
Opened ==
    /\ \E s \in 1..Len(sockets) :
           /\ sockets[s].readyState = "CONNECTING"
           /\ sockets' = [sockets EXCEPT ![s].readyState = "OPEN"]
    /\ UNCHANGED <<_callbacks, _nextCallbackId, _ws, requests, dispatched>>
    /\ UNCHANGED <<clientVars, now, calls, transport, probe>>

\* The connection of a socket fails or ends.
Closed ==
    /\ \E s \in 1..Len(sockets) :
           /\ sockets[s].readyState # "CLOSED"
           /\ sockets' = [sockets EXCEPT ![s].readyState = "CLOSED"]
    /\ UNCHANGED <<_callbacks, _nextCallbackId, _ws, requests, dispatched>>
    /\ UNCHANGED <<clientVars, now, calls, transport, probe>>

\* The push client alone: no REST client is in use.
InitPush ==
    /\ impl = "browser"
    /\ web_api_address = <<"h","t","t","p",":","/","/","x">>
    /\ web_api_id = <<>>
    /\ web_api_key = <<>>
    /\ web_api_secret = <<>>
    /\ now = MinClock
    /\ calls = <<>>
    /\ transport = <<>>
    /\ probe = <<>>
    /\ ModuleLoaded

PushNext ==
    \/ connect
    \/ disconnect
    \/ sendRequest
    \/ onmessage
    \/ Opened
    \/ Closed

SpecPush == InitPush /\ [][PushNext]_vars

-----------------------------------------------------------------------------
(* Properties of the push-notification client.                             *)

\* The message events that called the callback of the request numbered n.
CallsOf(n) ==
    {e \in 1..Len(dispatched) :
        dispatched[e].called.t = "function"
        /\ dispatched[e].called.kind = "callback"
        /\ dispatched[e].called.of = n}

\* The ids sendRequest has issued so far.
IssuedIds == {requests[n].callbackId : n \in 1..Len(requests)}

\* A step of disconnect that tears the connection down.
TornDown == _ws # 0 /\ _ws' = 0

\* A step that handed a message to the callback registered for its id.
ReplyHandled ==
    /\ Len(dispatched') = Len(dispatched) + 1
    /\ dispatched'[Len(dispatched')].called.t = "function"
    /\ dispatched'[Len(dispatched')].called.kind = "callback"

(* C12: an entry of the pending-callback table is removed when the reply   *)
(* for its request is delivered and when the connection is torn down: once *)
(* disconnect has run no callback registered for an earlier request is in  *)
(* the table, those registered while no socket was open included, and once *)
(* a reply has been handled the callback of its request is not in it.      *)
C12_EntriesRemoved ==
    [][/\ TornDown => DOMAIN _callbacks' = {}
       /\ ReplyHandled =>
              dispatched'[Len(dispatched')].callbackId.s \notin DOMAIN _callbacks']_vars

(* C13: every sendRequest gets a callback id different from all ids issued *)
(* before; each registered callback is called at most once, and only by a  *)
(* message whose callbackId is the id issued to its request; a message     *)
(* with no callbackId or with one that was never issued goes to the        *)
(* onMessage handler of its socket and to nothing else.                    *)
C13_IdsUniqueCallbacksOnce ==
    /\ \A m, n \in 1..Len(requests) :
           m # n => requests[m].callbackId # requests[n].callbackId
    /\ \A n \in 1..Len(requests) :
           /\ Cardinality(CallsOf(n)) <= 1
           /\ \A e \in CallsOf(n) :
                  dispatched[e].callbackId = String(requests[n].callbackId)
    /\ \A e \in 1..Len(dispatched) :
           (\/ dispatched[e].callbackId = Undefined
            \/ dispatched[e].callbackId.s \notin IssuedIds) =>
               dispatched[e].called = sockets[dispatched[e].socket].onMessage
Next ==
    \/ NodeNext
    \/ BrowserNext
    \/ Tick
    \/ Settle

Spec == Init /\ [][Next]_vars

====
